---- MODULE Spec2Model ----
(***************************************************************************)
(* A model of conn.go: the Conn monitor that bridges the callback-driven   *)
(* uTP engine to a blocking net.Conn.  One connection, the process-wide    *)
(* mutex mu, the condition variable c.cond, the engine upcalls, the two    *)
(* deadline timers and a fixed set of application threads.                 *)
(***************************************************************************)
EXTENDS Integers, Sequences, FiniteSets, TLC

\* Application threads that may block in Read, Write or waitForConnect.
Procs == {1, 2}
\* Error code names the engine may report through onLibError.
Codes == {"ECONNRESET", "ETIMEDOUT"}

\* The clock runs from 1 to MaxTime; a deadline is 0 (the zero time) or 1..MaxTime.
MaxTime == 2
\* Total number of bytes the engine delivers.
MaxDelivered == 2
\* Largest buffer handed to Read.
MaxBufLen == 2
\* Largest buffer handed to Write.
MaxWriteLen == 2
\* Total number of bytes handed to Write.
MaxOffered == 3
\* Number of Close calls.
MaxClose == 2
\* Number of error upcalls.
MaxErrorUpcalls == 2

VARIABLES
    s,                \* c.s: "valid" or "nil"
    readBuf,          \* c.readBuf
    gotEOF,           \* c.gotEOF
    gotConnect,       \* c.gotConnect
    destroyed,        \* c.destroyed
    closed,           \* c.closed
    libError,         \* c.libError: "nil" or the code name
    readDeadline,     \* c.readDeadline: 0 is the zero time
    writeDeadline,    \* c.writeDeadline
    readTimer,        \* c.readDeadlineTimer: [at, pending]
    writeTimer,       \* c.writeDeadlineTimer
    numBytesRead,     \* c.numBytesRead
    numBytesWritten,  \* c.numBytesWritten
    mu,               \* the package mutex: 0 when free, else the holder
    now,              \* time.Now()
    panicked,         \* the process has aborted
    pc,               \* where each thread is
    rb,               \* Read: len(b) of the call in progress
    wb,               \* Write: the rest of b, as positions of the caller's buffer
    wn,               \* Write: n, the bytes accepted so far in this call
    sent,             \* Write: positions of b the engine accepted in this call
    last,             \* the call that returned last: [op, len, n, err]
    flip,             \* changes whenever a call returns
    delivered,        \* every byte the engine delivered, in order
    offered,          \* bytes handed to Write in total
    consumed,         \* every byte Reads returned, in order of completion
    engineAccepted,   \* bytes utp_write accepted in total
    sumReturned,      \* sum of the counts Writes returned
    closeCalls,       \* Close calls made
    errUpcalls,       \* error upcalls delivered
    utpCloseCalls,    \* utp_close calls made
    nilUse,           \* engine primitives invoked with a nil handle
    unlockedUse,      \* engine primitives invoked without holding mu
    lastDrained       \* the Read that returned last called utp_read_drained

connVars == <<s, readBuf, gotEOF, gotConnect, destroyed, closed, libError,
              readDeadline, writeDeadline, readTimer, writeTimer,
              numBytesRead, numBytesWritten>>
procVars == <<pc, rb, wb, wn, sent, last, flip>>
histVars == <<delivered, offered, consumed, engineAccepted, sumReturned,
              closeCalls, errUpcalls, utpCloseCalls, nilUse, unlockedUse,
              lastDrained>>
vars == <<connVars, procVars, histVars, mu, now, panicked>>

Min(a, b) == IF a < b THEN a ELSE b

Drop(q, n) == SubSeq(q, n + 1, Len(q))

Take(q, n) == SubSeq(q, 1, n)

Result(op, len, n, err) == [op |-> op, len |-> len, n |-> n, err |-> err]

Init ==
    /\ s = "valid"
    /\ readBuf = <<>>
    /\ gotEOF = FALSE
    /\ gotConnect = FALSE
    /\ destroyed = FALSE
    /\ closed = FALSE
    /\ libError = "nil"
    /\ readDeadline = 0
    /\ writeDeadline = 0
    /\ readTimer = [at |-> 0, pending |-> FALSE]
    /\ writeTimer = [at |-> 0, pending |-> FALSE]
    /\ numBytesRead = 0
    /\ numBytesWritten = 0
    /\ mu = 0
    /\ now = 1
    /\ panicked = FALSE
    /\ pc = [t \in Procs |-> "idle"]
    /\ rb = [t \in Procs |-> 0]
    /\ wb = [t \in Procs |-> <<>>]
    /\ wn = [t \in Procs |-> 0]
    /\ sent = [t \in Procs |-> <<>>]
    /\ last = Result("none", 0, 0, "nil")
    /\ flip = FALSE
    /\ delivered = <<>>
    /\ offered = 0
    /\ consumed = <<>>
    /\ engineAccepted = 0
    /\ sumReturned = 0
    /\ closeCalls = 0
    /\ errUpcalls = 0
    /\ utpCloseCalls = 0
    /\ nilUse = {}
    /\ unlockedUse = {}
    /\ lastDrained = FALSE

\* A handler may run when the process is alive and it can take mu.
CanLock == ~panicked /\ mu = 0

\* Variant: c.cond.Signal(), one thread in cond.Wait becomes runnable.
BroadcastOne ==
    LET waiting == {t \in Procs :
                      pc[t] \in {"read_wait", "write_wait", "conn_wait"}}
    IN IF waiting = {} THEN pc' = pc
       ELSE LET w == CHOOSE t \in waiting : TRUE
            IN pc' = [pc EXCEPT ![w] =
                        CASE pc[w] = "read_wait" -> "read_woken"
                          [] pc[w] = "write_wait" -> "write_woken"
                          [] OTHER -> "conn_woken"]

\* c.cond.Broadcast(): every thread in cond.Wait becomes runnable.
Broadcast ==
    pc' = [t \in Procs |->
             CASE pc[t] = "read_wait" -> "read_woken"
               [] pc[t] = "write_wait" -> "write_woken"
               [] pc[t] = "conn_wait" -> "conn_woken"
               [] OTHER -> pc[t]]

\* An engine primitive is invoked with handle c.s.
UseHandle(prim) ==
    nilUse' = IF s = "nil" THEN nilUse \cup {prim} ELSE nilUse

(***************************************************************************)
(* Upcalls from the engine.                                                *)
(***************************************************************************)

\* onLibError without the check for an error already recorded.
onLibErrorOverwrite(codeName) ==
    /\ CanLock
    /\ errUpcalls < MaxErrorUpcalls
    /\ errUpcalls' = errUpcalls + 1
    /\ libError' = codeName
    /\ Broadcast
    /\ UNCHANGED <<s, readBuf, gotEOF, gotConnect, destroyed, closed,
                   readDeadline, writeDeadline, readTimer, writeTimer,
                   numBytesRead, numBytesWritten>>
    /\ UNCHANGED <<rb, wb, wn, sent, last, flip>>
    /\ UNCHANGED <<delivered, offered, consumed, engineAccepted, sumReturned,
                   closeCalls, utpCloseCalls, nilUse, unlockedUse,
                   lastDrained>>
    /\ UNCHANGED <<mu, now, panicked>>

onLibError(codeName) ==
    /\ CanLock
    /\ errUpcalls < MaxErrorUpcalls
    /\ errUpcalls' = errUpcalls + 1
    /\ IF libError # "nil"
       THEN /\ panicked' = TRUE
            /\ UNCHANGED <<connVars, procVars>>
       ELSE /\ libError' = codeName
            /\ Broadcast
            /\ UNCHANGED <<s, readBuf, gotEOF, gotConnect, destroyed, closed,
                           readDeadline, writeDeadline, readTimer, writeTimer,
                           numBytesRead, numBytesWritten>>
            /\ UNCHANGED <<rb, wb, wn, sent, last, flip>>
            /\ UNCHANGED panicked
    /\ UNCHANGED <<delivered, offered, consumed, engineAccepted, sumReturned,
                   closeCalls, utpCloseCalls, nilUse, unlockedUse,
                   lastDrained>>
    /\ UNCHANGED <<mu, now>>

\* The engine keeps its contract: one error upcall per connection at most.
engineError(codeName) ==
    /\ libError = "nil"
    /\ onLibError(codeName)

setConnected ==
    /\ CanLock
    /\ gotConnect' = TRUE
    /\ Broadcast
    /\ UNCHANGED <<s, readBuf, gotEOF, destroyed, closed, libError,
                   readDeadline, writeDeadline, readTimer, writeTimer,
                   numBytesRead, numBytesWritten>>
    /\ UNCHANGED <<rb, wb, wn, sent, last, flip>>
    /\ UNCHANGED <<histVars, mu, now, panicked>>

setGotEOF ==
    /\ CanLock
    /\ gotEOF' = TRUE
    /\ Broadcast
    /\ UNCHANGED <<s, readBuf, gotConnect, destroyed, closed, libError,
                   readDeadline, writeDeadline, readTimer, writeTimer,
                   numBytesRead, numBytesWritten>>
    /\ UNCHANGED <<rb, wb, wn, sent, last, flip>>
    /\ UNCHANGED <<histVars, mu, now, panicked>>

onDestroyed ==
    /\ CanLock
    /\ destroyed' = TRUE
    /\ s' = "nil"
    /\ Broadcast
    /\ UNCHANGED <<readBuf, gotEOF, gotConnect, closed, libError,
                   readDeadline, writeDeadline, readTimer, writeTimer,
                   numBytesRead, numBytesWritten>>
    /\ UNCHANGED <<rb, wb, wn, sent, last, flip>>
    /\ UNCHANGED <<histVars, mu, now, panicked>>

\* The data-arrival upcall: the k-th byte delivered is 0x40 + k.  The engine
\* delivers no data after the end of the stream, after an error or once the
\* socket is destroyed.
onData(len) ==
    /\ CanLock
    /\ ~gotEOF
    /\ ~destroyed
    /\ libError = "nil"
    /\ Len(delivered) + len <= MaxDelivered
    /\ LET bytes == [i \in 1..len |-> 64 + Len(delivered) + i]
       IN /\ readBuf' = readBuf \o bytes
          /\ delivered' = delivered \o bytes
    /\ Broadcast
    /\ UNCHANGED <<s, gotEOF, gotConnect, destroyed, closed, libError,
                   readDeadline, writeDeadline, readTimer, writeTimer,
                   numBytesRead, numBytesWritten>>
    /\ UNCHANGED <<rb, wb, wn, sent, last, flip>>
    /\ UNCHANGED <<offered, consumed, engineAccepted, sumReturned, closeCalls, errUpcalls,
                   errUpcalls, utpCloseCalls, nilUse, unlockedUse,
                   lastDrained>>
    /\ UNCHANGED <<mu, now, panicked>>

(***************************************************************************)
(* Close.                                                                  *)
(***************************************************************************)

\* close without its early return.
alreadyClosedNever == FALSE

\* The early return of close.
alreadyClosed == closed

Close ==
    /\ CanLock
    /\ closeCalls < MaxClose
    /\ closeCalls' = closeCalls + 1
    /\ IF alreadyClosed
       THEN UNCHANGED <<connVars, procVars, utpCloseCalls, nilUse>>
       ELSE /\ IF ~destroyed
               THEN /\ UseHandle("utp_close")
                    /\ utpCloseCalls' = utpCloseCalls + 1
                    /\ s' = "nil"
               ELSE UNCHANGED <<s, utpCloseCalls, nilUse>>
            /\ closed' = TRUE
            /\ Broadcast
            /\ UNCHANGED <<readBuf, gotEOF, gotConnect, destroyed, libError,
                           readDeadline, writeDeadline, readTimer, writeTimer,
                           numBytesRead, numBytesWritten>>
            /\ UNCHANGED <<rb, wb, wn, sent, last, flip>>
    /\ UNCHANGED <<delivered, offered, consumed, engineAccepted, sumReturned,
                   errUpcalls, unlockedUse, lastDrained>>
    /\ UNCHANGED <<mu, now, panicked>>

(***************************************************************************)
(* Deadlines and their timers.                                             *)
(***************************************************************************)

flagVars == <<s, gotEOF, gotConnect, destroyed, closed, libError>>
localVars == <<rb, wb, wn, sent, last, flip>>

\* Variant: the setter leaves the timer as it is.
armTimerNever(timer, t) == timer

\* Timer.Stop() for the zero time, Timer.Reset(t.Sub(time.Now())) otherwise: the
\* timer is then due at t.  A firing already under way is not recalled.
armTimer(timer, t) == [timer EXCEPT !.at = t]

SetDeadline(t) ==
    /\ CanLock
    /\ readDeadline' = t
    /\ writeDeadline' = t
    /\ readTimer' = armTimer(readTimer, t)
    /\ writeTimer' = armTimer(writeTimer, t)
    /\ Broadcast
    /\ UNCHANGED <<flagVars, readBuf, numBytesRead, numBytesWritten>>
    /\ UNCHANGED <<localVars, histVars, mu, now, panicked>>

\* SetReadDeadline without the broadcast.
SetReadDeadlineNoWake(t) ==
    /\ CanLock
    /\ readDeadline' = t
    /\ readTimer' = armTimer(readTimer, t)
    /\ UNCHANGED <<flagVars, readBuf, numBytesRead, numBytesWritten>>
    /\ UNCHANGED <<writeDeadline, writeTimer>>
    /\ UNCHANGED <<pc, localVars, histVars, mu, now, panicked>>

SetReadDeadline(t) ==
    /\ CanLock
    /\ readDeadline' = t
    /\ readTimer' = armTimer(readTimer, t)
    /\ Broadcast
    /\ UNCHANGED <<flagVars, readBuf, numBytesRead, numBytesWritten>>
    /\ UNCHANGED <<writeDeadline, writeTimer>>
    /\ UNCHANGED <<localVars, histVars, mu, now, panicked>>

SetWriteDeadline(t) ==
    /\ CanLock
    /\ writeDeadline' = t
    /\ writeTimer' = armTimer(writeTimer, t)
    /\ Broadcast
    /\ UNCHANGED <<flagVars, readBuf, numBytesRead, numBytesWritten>>
    /\ UNCHANGED <<readDeadline, readTimer>>
    /\ UNCHANGED <<localVars, histVars, mu, now, panicked>>

\* The runtime finds an armed timer due and starts its function.
ReadTimerExpire ==
    /\ ~panicked
    /\ readTimer.at # 0
    /\ now >= readTimer.at
    /\ readTimer' = [at |-> 0, pending |-> TRUE]
    /\ UNCHANGED <<flagVars, readBuf, readDeadline, writeDeadline, writeTimer,
                   numBytesRead, numBytesWritten>>
    /\ UNCHANGED <<procVars, histVars, mu, now, panicked>>

WriteTimerExpire ==
    /\ ~panicked
    /\ writeTimer.at # 0
    /\ now >= writeTimer.at
    /\ writeTimer' = [at |-> 0, pending |-> TRUE]
    /\ UNCHANGED <<flagVars, readBuf, readDeadline, writeDeadline, readTimer,
                   numBytesRead, numBytesWritten>>
    /\ UNCHANGED <<procVars, histVars, mu, now, panicked>>

\* The timer's function: take the lock, broadcast.
ReadTimerFire ==
    /\ CanLock
    /\ readTimer.pending
    /\ readTimer' = [readTimer EXCEPT !.pending = FALSE]
    /\ Broadcast
    /\ UNCHANGED <<flagVars, readBuf, readDeadline, writeDeadline, writeTimer,
                   numBytesRead, numBytesWritten>>
    /\ UNCHANGED <<localVars, histVars, mu, now, panicked>>

WriteTimerFire ==
    /\ CanLock
    /\ writeTimer.pending
    /\ writeTimer' = [writeTimer EXCEPT !.pending = FALSE]
    /\ Broadcast
    /\ UNCHANGED <<flagVars, readBuf, readDeadline, writeDeadline, readTimer,
                   numBytesRead, numBytesWritten>>
    /\ UNCHANGED <<localVars, histVars, mu, now, panicked>>

\* time.Now() advances.
Tick ==
    /\ ~panicked
    /\ now < MaxTime
    /\ now' = now + 1
    /\ UNCHANGED <<connVars, procVars, histVars, mu, panicked>>

(***************************************************************************)
(* Read.                                                                   *)
(***************************************************************************)

\* Variant: the test without IsZero.
deadlineExceededNoZero(deadline) == now >= deadline

\* !deadline.IsZero() && !time.Now().Before(deadline)
deadlineExceeded(deadline) == deadline # 0 /\ now >= deadline

\* The switch of readNoWait with the recorded error tested before gotEOF.
readErrLibFirst ==
    IF libError # "nil" THEN libError
    ELSE IF gotEOF THEN "EOF"
    ELSE IF destroyed THEN "destroyed"
    ELSE IF closed THEN "closed"
    ELSE IF deadlineExceeded(readDeadline) THEN "deadline"
    ELSE "nil"

\* The switch of readNoWait.
readErr ==
    IF gotEOF THEN "EOF"
    ELSE IF libError # "nil" THEN libError
    ELSE IF destroyed THEN "destroyed"
    ELSE IF closed THEN "closed"
    ELSE IF deadlineExceeded(readDeadline) THEN "deadline"
    ELSE "nil"

\* n = copy(b, c.readBuf)
copyLen(len) == Min(len, Len(readBuf))

\* The condition under which readNoWait calls utp_read_drained.
readDrains(n, rest) == n # 0 /\ Len(rest) = 0

\* Variant: readNoWait that copies from the buffer and leaves it whole.
readNoWaitKeep(len) ==
    LET n == copyLen(len)
    IN [n |-> n, data |-> Take(readBuf, n), rest |-> readBuf,
        drained |-> FALSE, err |-> readErr]

\* readNoWait(b) with len(b) = len.
readNoWait(len) ==
    LET n == copyLen(len)
        rest == Drop(readBuf, n)
    IN [n |-> n, data |-> Take(readBuf, n), rest |-> rest,
        drained |-> readDrains(n, rest), err |-> readErr]

\* The condition under which Read returns instead of waiting.
readReturns(n, len, err) == n # 0 \/ len = 0 \/ err # "nil"

\* One pass of the loop of Read, from readNoWait to the return or cond.Wait().
ReadLoop(t, len) ==
    LET r == readNoWait(len)
    IN /\ readBuf' = r.rest
       /\ IF r.drained THEN UseHandle("utp_read_drained") ELSE UNCHANGED nilUse
       /\ \/ /\ r.drained
             /\ s = "nil"
             /\ panicked' = TRUE
             /\ UNCHANGED <<numBytesRead, pc, rb, last, flip, consumed,
                            lastDrained>>
          \/ /\ UNCHANGED panicked
             /\ numBytesRead' = numBytesRead + r.n
             /\ IF readReturns(r.n, len, r.err)
                THEN /\ pc' = [pc EXCEPT ![t] = "idle"]
                     /\ last' = Result("Read", len, r.n, r.err)
                     /\ flip' = ~flip
                     /\ consumed' = consumed \o r.data
                     /\ lastDrained' = r.drained
                     /\ rb' = [rb EXCEPT ![t] = 0]
                ELSE /\ pc' = [pc EXCEPT ![t] = "read_wait"]
                     /\ rb' = [rb EXCEPT ![t] = len]
                     /\ UNCHANGED <<last, flip, consumed, lastDrained>>
       /\ UNCHANGED <<flagVars, readDeadline, writeDeadline, readTimer,
                      writeTimer, numBytesWritten>>
       /\ UNCHANGED <<wb, wn, sent, delivered, offered, engineAccepted,
                      sumReturned, closeCalls, errUpcalls, utpCloseCalls, unlockedUse,
                      mu, now>>

ReadBegin(t, len) ==
    /\ CanLock
    /\ pc[t] = "idle"
    /\ ReadLoop(t, len)

ReadResume(t) ==
    /\ CanLock
    /\ pc[t] = "read_woken"
    /\ ReadLoop(t, rb[t])

(***************************************************************************)
(* Write.                                                                  *)
(***************************************************************************)

\* Variant: the switch of writeNoWait without the deadline case.
writeErrNoDeadline ==
    IF libError # "nil" THEN libError
    ELSE IF closed THEN "closed"
    ELSE IF destroyed THEN "destroyed"
    ELSE "nil"

\* The switch of writeNoWait with closed tested before the recorded error.
writeErrClosedFirst ==
    IF closed THEN "closed"
    ELSE IF libError # "nil" THEN libError
    ELSE IF destroyed THEN "destroyed"
    ELSE IF deadlineExceeded(writeDeadline) THEN "deadline"
    ELSE "nil"

\* The switch of writeNoWait.
writeErr ==
    IF libError # "nil" THEN libError
    ELSE IF closed THEN "closed"
    ELSE IF destroyed THEN "destroyed"
    ELSE IF deadlineExceeded(writeDeadline) THEN "deadline"
    ELSE "nil"

\* b = b[n1:]
writeAdvance(b, n1) == Drop(b, n1)

\* n = n1 in place of n += n1.
writeCountLast(n, n1) == n1

\* n += n1
writeCount(n, n1) == n + n1

\* Write returns: the counter is updated and the lock released.
WriteReturn(t, n, err) ==
    /\ numBytesWritten' = numBytesWritten + n
    /\ sumReturned' = sumReturned + n
    /\ pc' = [pc EXCEPT ![t] = "idle"]
    /\ last' = Result("Write", Len(sent[t]) + Len(wb[t]), n, err)
    /\ flip' = ~flip
    /\ mu' = 0

\* One pass of the loop of Write with len(b) # 0: writeNoWait, then the return,
\* the next pass under the same lock, or cond.Wait().
WriteLoop(t) ==
    \E k \in 0..Len(wb[t]) :
       LET err == writeErr
           n1 == IF err # "nil" THEN 0 ELSE k
           b2 == writeAdvance(wb[t], n1)
           n2 == writeCount(wn[t], n1)
       IN /\ err # "nil" => k = 0
          /\ IF err = "nil"
             THEN /\ UseHandle("utp_write")
                  /\ engineAccepted' = engineAccepted + n1
                  /\ sent' = [sent EXCEPT ![t] = sent[t] \o Take(wb[t], n1)]
             ELSE UNCHANGED <<nilUse, engineAccepted, sent>>
          /\ wb' = [wb EXCEPT ![t] = b2]
          /\ wn' = [wn EXCEPT ![t] = n2]
          /\ IF err # "nil" \/ (n1 # 0 /\ Len(b2) = 0)
             THEN WriteReturn(t, n2, err)
             ELSE /\ IF n1 # 0
                     THEN pc' = [pc EXCEPT ![t] = "write_run"] /\ mu' = t
                     ELSE pc' = [pc EXCEPT ![t] = "write_wait"] /\ mu' = 0
                  /\ UNCHANGED <<numBytesWritten, sumReturned, last, flip>>
          /\ UNCHANGED <<flagVars, readBuf, readDeadline, writeDeadline,
                         readTimer, writeTimer, numBytesRead>>
          /\ UNCHANGED <<rb, delivered, offered, consumed, closeCalls, errUpcalls,
                         utpCloseCalls, unlockedUse, lastDrained, now,
                         panicked>>

\* Write(b) with len(b) = len takes the lock; an empty b returns at once.
WriteBegin(t, len) ==
    /\ CanLock
    /\ pc[t] = "idle"
    /\ offered + len <= MaxOffered
    /\ offered' = offered + len
    /\ wb' = [wb EXCEPT ![t] = [i \in 1..len |-> i]]
    /\ wn' = [wn EXCEPT ![t] = 0]
    /\ sent' = [sent EXCEPT ![t] = <<>>]
    /\ IF len = 0
       THEN /\ numBytesWritten' = numBytesWritten + 0
            /\ pc' = pc
            /\ last' = Result("Write", 0, 0, "nil")
            /\ flip' = ~flip
            /\ mu' = 0
       ELSE /\ pc' = [pc EXCEPT ![t] = "write_run"]
            /\ mu' = t
            /\ UNCHANGED <<numBytesWritten, last, flip>>
    /\ UNCHANGED <<flagVars, readBuf, readDeadline, writeDeadline, readTimer,
                   writeTimer, numBytesRead>>
    /\ UNCHANGED <<rb, delivered, consumed, engineAccepted, sumReturned,
                   closeCalls, errUpcalls, utpCloseCalls, nilUse, unlockedUse,
                   lastDrained, now,
                   panicked>>

\* The next pass of the loop, the lock still held.
WriteRun(t) ==
    /\ ~panicked
    /\ mu = t
    /\ pc[t] = "write_run"
    /\ WriteLoop(t)

\* cond.Wait() returns with the lock retaken.
WriteResume(t) ==
    /\ CanLock
    /\ pc[t] = "write_woken"
    /\ WriteLoop(t)

(***************************************************************************)
(* waitForConnect, LocalAddr, RemoteAddr.                                  *)
(***************************************************************************)

\* Variant: the loop of waitForConnect testing gotConnect first.
ConnLoopConnectFirst(t) ==
    /\ IF libError # "nil" \/ gotConnect
       THEN /\ pc' = [pc EXCEPT ![t] = "idle"]
            /\ last' = Result("waitForConnect", 0, 0,
                              IF gotConnect THEN "nil" ELSE libError)
            /\ flip' = ~flip
       ELSE /\ pc' = [pc EXCEPT ![t] = "conn_wait"]
            /\ UNCHANGED <<last, flip>>
    /\ UNCHANGED <<connVars, rb, wb, wn, sent, histVars, mu, now, panicked>>

\* One pass of the loop of waitForConnect; the caller holds the lock.
ConnLoop(t) ==
    /\ IF libError # "nil" \/ gotConnect
       THEN /\ pc' = [pc EXCEPT ![t] = "idle"]
            /\ last' = Result("waitForConnect", 0, 0, libError)
            /\ flip' = ~flip
       ELSE /\ pc' = [pc EXCEPT ![t] = "conn_wait"]
            /\ UNCHANGED <<last, flip>>
    /\ UNCHANGED <<connVars, rb, wb, wn, sent, histVars, mu, now, panicked>>

waitForConnect(t) ==
    /\ CanLock
    /\ pc[t] = "idle"
    /\ ConnLoop(t)

ConnResume(t) ==
    /\ CanLock
    /\ pc[t] = "conn_woken"
    /\ ConnLoop(t)

\* What a primitive handed a nil handle does is not defined: the process may die.
NilHandleOutcome == panicked' \in (IF s = "nil" THEN BOOLEAN ELSE {FALSE})

LocalAddr ==
    /\ CanLock
    /\ UseHandle("utp_get_context")
    /\ NilHandleOutcome
    /\ UNCHANGED <<connVars, procVars, mu, now>>
    /\ UNCHANGED <<delivered, offered, consumed, engineAccepted, sumReturned,
                   closeCalls, errUpcalls, utpCloseCalls, unlockedUse,
                   lastDrained>>

\* RemoteAddr takes no lock.
RemoteAddr ==
    /\ ~panicked
    /\ UseHandle("utp_getpeername")
    /\ unlockedUse' = unlockedUse \cup {"utp_getpeername"}
    /\ NilHandleOutcome
    /\ UNCHANGED <<connVars, procVars, mu, now>>
    /\ UNCHANGED <<delivered, offered, consumed, engineAccepted, sumReturned,
                   closeCalls, errUpcalls, utpCloseCalls, lastDrained>>

Next ==
    \/ \E code \in Codes : onLibError(code)
    \/ setConnected
    \/ setGotEOF
    \/ onDestroyed
    \/ \E len \in 1..MaxDelivered : onData(len)
    \/ Close
    \/ \E t \in 0..MaxTime : SetDeadline(t)
    \/ \E t \in 0..MaxTime : SetReadDeadline(t)
    \/ \E t \in 0..MaxTime : SetWriteDeadline(t)
    \/ ReadTimerExpire
    \/ WriteTimerExpire
    \/ ReadTimerFire
    \/ WriteTimerFire
    \/ Tick
    \/ \E t \in Procs, len \in 0..MaxBufLen : ReadBegin(t, len)
    \/ \E t \in Procs : ReadResume(t)
    \/ \E t \in Procs, len \in 0..MaxWriteLen : WriteBegin(t, len)
    \/ \E t \in Procs : WriteRun(t)
    \/ \E t \in Procs : WriteResume(t)
    \/ \E t \in Procs : waitForConnect(t)
    \/ \E t \in Procs : ConnResume(t)
    \/ LocalAddr
    \/ RemoteAddr

Spec == Init /\ [][Next]_vars

\* The read side: everything that changes what Read reads, and one thread
\* calling Read.  To a thread in Read the other upcalls and the timers are
\* broadcasts, as is SetReadDeadline with the deadline already set.
Readers == {1}

NextRead ==
    \/ \E code \in Codes : engineError(code)
    \/ setGotEOF
    \/ onDestroyed
    \/ \E len \in 1..MaxDelivered : onData(len)
    \/ Close
    \/ \E t \in 0..MaxTime : SetReadDeadline(t)
    \/ Tick
    \/ \E t \in Readers, len \in 0..MaxBufLen : ReadBegin(t, len)
    \/ \E t \in Readers : ReadResume(t)

SpecRead == Init /\ [][NextRead]_vars

\* The read deadline: the setters, the timers and the clock, with data
\* arriving and one thread calling Read.
NextDeadline ==
    \/ \E t \in 0..MaxTime : SetDeadline(t)
    \/ \E t \in 0..MaxTime : SetReadDeadline(t)
    \/ \E t \in 0..MaxTime : SetWriteDeadline(t)
    \/ ReadTimerExpire
    \/ WriteTimerExpire
    \/ ReadTimerFire
    \/ WriteTimerFire
    \/ Tick
    \/ \E len \in 1..MaxDelivered : onData(len)
    \/ \E t \in Readers, len \in 0..MaxBufLen : ReadBegin(t, len)
    \/ \E t \in Readers : ReadResume(t)

SpecDeadline == Init /\ [][NextDeadline]_vars

\* The write side: everything that changes what Write reads, and two threads
\* calling Write.  To a thread in Write the other upcalls and the timers are
\* broadcasts, as is SetWriteDeadline with the deadline already set.
NextWrite ==
    \/ \E code \in Codes : engineError(code)
    \/ onDestroyed
    \/ Close
    \/ \E t \in 0..MaxTime : SetWriteDeadline(t)
    \/ Tick
    \/ \E t \in Procs, len \in 0..MaxWriteLen : WriteBegin(t, len)
    \/ \E t \in Procs : WriteRun(t)
    \/ \E t \in Procs : WriteResume(t)

SpecWrite == Init /\ [][NextWrite]_vars

\* The connect side: the upcalls, a second error upcall included, Close and
\* threads in waitForConnect.
NextConnect ==
    \/ \E code \in Codes : onLibError(code)
    \/ setConnected
    \/ setGotEOF
    \/ onDestroyed
    \/ Close
    \/ \E t \in Procs : waitForConnect(t)
    \/ \E t \in Procs : ConnResume(t)

SpecConnect == Init /\ [][NextConnect]_vars

(***************************************************************************)
(* Properties.                                                             *)
(***************************************************************************)

\* A step in which a call to Read returns.
ReadReturn == flip' # flip /\ last'.op = "Read"

\* No terminal flag is set.
NoTerminal == ~gotEOF /\ libError = "nil" /\ ~destroyed /\ ~closed

\* The error Read is to report when rest is left in the buffer: end of stream
\* only with the buffer empty, then the recorded error, destroyed, closed, the
\* read deadline.
ClaimedReadErr(rest) ==
    IF gotEOF /\ rest = <<>> THEN "EOF"
    ELSE IF libError # "nil" THEN libError
    ELSE IF destroyed THEN "destroyed"
    ELSE IF closed THEN "closed"
    ELSE IF readDeadline # 0 /\ now >= readDeadline THEN "deadline"
    ELSE "nil"

\* C1: a Read into a non-empty buffer reports end of stream only when EOF
\* was signalled and the buffer is empty after the copy; with EOF signalled
\* and more bytes buffered than the caller's buffer takes, it returns n > 0
\* and no error.
C1_EofOnlyWhenDrained ==
    [][(ReadReturn /\ last'.len > 0) =>
          /\ last'.err = "EOF" => (gotEOF /\ readBuf' = <<>>)
          /\ (gotEOF /\ Len(readBuf) > last'.len)
                => (last'.n > 0 /\ last'.err = "nil")]_vars

\* C2: once EOF was signalled and the buffer is drained, the connection stays
\* so, every Read that returns returns (0, EOF), and no thread waits in Read,
\* whatever else happens.
C2_EofSticky ==
    [][(gotEOF /\ readBuf = <<>>) =>
          /\ gotEOF'
          /\ readBuf' = <<>>
          /\ ReadReturn => (last'.n = 0 /\ last'.err = "EOF")
          /\ \A t \in Procs : pc'[t] # "read_wait"]_vars

\* C2: a Read of a non-empty buffer returned (0, EOF) on a drained connection
\* that is also closed, destroyed, in error and past its read deadline.
C2_Witness ==
    /\ gotEOF /\ readBuf = <<>> /\ delivered # <<>> /\ consumed = delivered
    /\ closed /\ destroyed /\ libError # "nil"
    /\ readDeadline # 0 /\ now >= readDeadline
    /\ last.op = "Read" /\ last.len > 0 /\ last.n = 0 /\ last.err = "EOF"

\* C3: a Read with a zero-length buffer never waits, returns n = 0 with the
\* error of the precedence check for the state it is called in, and leaves
\* the buffer as it is.
C3_ZeroLengthRead ==
    [][/\ \A t \in Procs :
             pc'[t] \in {"read_wait", "read_woken"} => rb'[t] # 0
       /\ (ReadReturn /\ last'.len = 0) =>
             /\ last'.n = 0
             /\ readBuf' = readBuf
             /\ last'.err = ClaimedReadErr(readBuf)]_vars

\* C4: the first Close sets closed and, unless the connection is destroyed,
\* calls utp_close once and drops the handle; a later Close changes nothing;
\* utp_close is called at most once, by Close alone, and never once the
\* connection is destroyed.
C4_CloseIdempotent ==
    [][/\ closeCalls' # closeCalls =>
             /\ closed'
             /\ IF closed
                THEN UNCHANGED <<connVars, pc, utpCloseCalls, nilUse>>
                ELSE IF destroyed
                     THEN utpCloseCalls' = utpCloseCalls /\ s' = s
                     ELSE /\ s = "valid"
                          /\ utpCloseCalls' = utpCloseCalls + 1
                          /\ s' = "nil"
       /\ utpCloseCalls' # utpCloseCalls =>
             (closeCalls' # closeCalls /\ ~destroyed /\ ~closed)
       /\ utpCloseCalls' <= 1]_vars

\* C4: Close was called twice on a connection and utp_close once.
C4_Witness ==
    closeCalls = 2 /\ utpCloseCalls = 1 /\ closed /\ s = "nil"

\* C5: a step that sets a non-zero read deadline that is not in the future
\* wakes every thread waiting in Read; a woken thread that runs with the
\* buffer empty, no terminal flag and the deadline exceeded returns
\* (0, deadline exceeded).
C5_PastDeadlineWakesRead ==
    [][/\ (readDeadline' # readDeadline /\ readDeadline' # 0
              /\ now >= readDeadline')
          => \A t \in Procs : pc[t] = "read_wait" => pc'[t] = "read_woken"
       /\ \A t \in Procs :
             (/\ pc[t] = "read_woken" /\ pc'[t] # "read_woken"
              /\ readBuf = <<>> /\ NoTerminal
              /\ readDeadline # 0 /\ now >= readDeadline)
             => /\ pc'[t] = "idle"
                /\ flip' # flip
                /\ last' = Result("Read", rb[t], 0, "deadline")]_vars

\* C5: a thread that waited in Read is runnable with the deadline set to the
\* present instant and the timer armed for it but not yet due to have run.
C5_Witness ==
    /\ pc[1] = "read_woken" /\ readBuf = <<>>
    /\ now = 1 /\ readDeadline = 1
    /\ readTimer = [at |-> 1, pending |-> FALSE]

\* C6: the first error upcall wakes every thread waiting in Write; a woken
\* thread that runs with an error recorded returns that error and the number
\* of bytes the engine accepted in this call, and does not call utp_write.
C6_ErrorWakesBlockedWrite ==
    [][/\ (libError = "nil" /\ libError' # "nil")
          => \A t \in Procs : pc[t] = "write_wait" => pc'[t] = "write_woken"
       /\ \A t \in Procs :
             (pc[t] = "write_woken" /\ pc'[t] # "write_woken"
                /\ libError # "nil")
             => /\ pc'[t] = "idle"
                /\ flip' # flip
                /\ last'.op = "Write"
                /\ last'.err = libError
                /\ last'.n = Len(sent[t])
                /\ sent' = sent
                /\ engineAccepted' = engineAccepted]_vars

\* C6: a Write of two bytes returned one byte and the engine's error.
C6_Witness ==
    last.op = "Write" /\ last.len = 2 /\ last.n = 1 /\ last.err \in Codes

\* C7: a recorded error never changes; the first error upcall records its
\* code, a second one aborts the process and changes nothing of the
\* connection.
C7_ErrorLatchedOnce ==
    [][/\ libError # "nil" => libError' = libError
       /\ (errUpcalls' # errUpcalls /\ libError = "nil")
          => (libError' \in Codes /\ ~panicked')
       /\ (errUpcalls' # errUpcalls /\ libError # "nil")
          => (panicked' /\ UNCHANGED connVars)]_vars

\* C7: a second error upcall was delivered.
C7_Witness ==
    errUpcalls = 2 /\ panicked /\ libError \in Codes

\* The positions 1..n of a caller's buffer.
Positions(n) == [i \in 1..n |-> i]

RECURSIVE AcceptedInFlight(_)
\* Bytes the engine accepted for the calls to Write of ts still in progress.
AcceptedInFlight(ts) ==
    IF ts = {} THEN 0
    ELSE LET t == CHOOSE x \in ts : TRUE
         IN (IF pc[t] = "idle" THEN 0 ELSE Len(sent[t]))
            + AcceptedInFlight(ts \ {t})

\* C8: in every call to Write the count equals the bytes the engine
\* accepted, which are the first bytes of the caller's buffer, each once and
\* in order, the rest being what is offered next; the count returned is that
\* count; numBytesWritten is the sum of the counts returned, and with the
\* counts of the calls in progress it is what the engine accepted in total.
C8_WriteAccounting ==
    /\ [](/\ \A t \in Procs :
                /\ wn[t] = Len(sent[t])
                /\ sent[t] \o wb[t] = Positions(Len(sent[t]) + Len(wb[t]))
          /\ numBytesWritten = sumReturned
          /\ engineAccepted = sumReturned + AcceptedInFlight(Procs))
    /\ [][\A t \in Procs :
             (pc[t] # "idle" /\ pc'[t] = "idle" /\ last'.op = "Write")
             => /\ last'.n = Len(sent'[t])
                /\ sumReturned' = sumReturned + Len(sent'[t])]_vars

\* C8: one thread waits in Write with one byte accepted while the other's
\* Write of one byte has returned.
C8_Witness ==
    /\ pc[1] = "write_wait" /\ Len(sent[1]) = 1
    /\ last = Result("Write", 1, 1, "nil")
    /\ engineAccepted = 2

\* C9: no engine primitive is ever invoked with the handle dropped by
\* onDestroyed or Close.
C9_HandleNeverUsedOnceInvalid == nilUse = {}

\* C10: the error Read returns is the first that holds of end of stream
\* (EOF signalled and the buffer empty), the recorded error, destroyed,
\* closed, read deadline exceeded, none.
C10_ReadPrecedence ==
    [][ReadReturn => last'.err = ClaimedReadErr(readBuf')]_vars

\* A step in which a call to Write returns.
WriteReturns == flip' # flip /\ last'.op = "Write"

\* The error Write is to report: the recorded error, then destroyed, closed,
\* the write deadline, in the order Read uses.
ClaimedWriteErr ==
    IF libError # "nil" THEN libError
    ELSE IF destroyed THEN "destroyed"
    ELSE IF closed THEN "closed"
    ELSE IF writeDeadline # 0 /\ now >= writeDeadline THEN "deadline"
    ELSE "nil"

\* C11: the error a Write of a non-empty buffer returns is the first that
\* holds of the recorded error, destroyed, closed, write deadline exceeded,
\* none; on a connection both closed and destroyed with no recorded error it
\* is destroyed, as for Read.
C11_WritePrecedence ==
    [][(WriteReturns /\ last'.len > 0) => last'.err = ClaimedWriteErr]_vars

\* C12: a Write of an empty buffer never waits, has the engine accept
\* nothing, and returns (0, e) where e is the first that holds of the
\* recorded error, destroyed, closed, write deadline exceeded, none.
C12_EmptyWrite ==
    [][/\ \A t \in Procs :
             (pc[t] = "idle" /\ pc'[t] \in {"write_run", "write_wait"})
             => wb'[t] # <<>>
       /\ (WriteReturns /\ last'.len = 0) =>
             /\ last'.n = 0
             /\ engineAccepted' = engineAccepted
             /\ last'.err = ClaimedWriteErr]_vars

(***************************************************************************)
(* The address operations beside writers, Close and onDestroyed.           *)
(***************************************************************************)
NextAddr ==
    \/ onDestroyed
    \/ Close
    \/ LocalAddr
    \/ RemoteAddr
    \/ \E t \in Procs :
          \/ \E len \in 0..MaxWriteLen : WriteBegin(t, len)
          \/ WriteRun(t)
          \/ WriteResume(t)

SpecAddr == Init /\ [][NextAddr]_vars

\* C13: no field of the connection is read or written, and no engine
\* primitive invoked, by an operation that does not hold the lock.
C13_AllUnderLock == unlockedUse = {}

\* C14: a Read calls utp_read_drained exactly when it copied at least one
\* byte and left the buffer empty, and never on a connection that has a
\* recorded error, is closed or is destroyed.
C14_DrainedNotification ==
    [][ReadReturn =>
          /\ lastDrained' <=> (last'.n > 0 /\ readBuf' = <<>>)
          /\ lastDrained' => (libError = "nil" /\ ~closed /\ ~destroyed)]_vars

(***************************************************************************)
(* Readers and writers of one-byte buffers against the terminal events,    *)
(* with no data arriving: a Read waits until a terminal event.  The fair   *)
(* specification has a thread that was woken, or that holds mu, run        *)
(* eventually: sync.Mutex hands the lock to a waiting goroutine.           *)
(***************************************************************************)
NextWake ==
    \/ \E codeName \in Codes : engineError(codeName)
    \/ onDestroyed
    \/ Close
    \/ \E t \in Procs :
          \/ ReadBegin(t, 1)
          \/ ReadResume(t)
          \/ WriteBegin(t, 1)
          \/ WriteRun(t)
          \/ WriteResume(t)

SpecWake == Init /\ [][NextWake]_vars

SpecWakeFair ==
    /\ SpecWake
    /\ \A t \in Procs :
          /\ WF_vars(ReadResume(t))
          /\ WF_vars(WriteRun(t))
          /\ WF_vars(WriteResume(t))

\* The connection has a recorded error, is closed or is destroyed.
Terminated == libError # "nil" \/ closed \/ destroyed

\* C15: no thread waits in Read or Write on a connection that has a recorded
\* error, is closed or is destroyed; a step that records an error, closes or
\* destroys the connection wakes every thread waiting in Read or Write; a
\* woken thread that runs on such a connection returns with an error; and
\* every thread inside Read or Write on such a connection eventually returns.
C15_TerminalWakesAll ==
    /\ [](Terminated =>
             \A t \in Procs : pc[t] \notin {"read_wait", "write_wait"})
    /\ [][/\ (~Terminated /\ Terminated') =>
                \A t \in Procs :
                   /\ pc[t] = "read_wait" => pc'[t] = "read_woken"
                   /\ pc[t] = "write_wait" => pc'[t] = "write_woken"
          /\ \A t \in Procs :
                (/\ pc[t] \in {"read_woken", "write_woken"}
                 /\ pc'[t] # pc[t]
                 /\ Terminated)
                => /\ pc'[t] = "idle"
                   /\ flip' # flip
                   /\ last'.err # "nil"]_vars
    /\ \A t \in Procs : (Terminated /\ pc[t] # "idle") ~> (pc[t] = "idle")

\* C15: a thread that waited in Read and one that waited in Write are both
\* runnable after Close.
C15_Witness ==
    /\ pc[1] = "read_woken" /\ pc[2] = "write_woken"
    /\ closed /\ ~destroyed /\ libError = "nil"

(***************************************************************************)
(* A reader and a writer, each with a buffer of the largest size, against  *)
(* the deadline setters and the timers, with no data and no terminal event *)
(* arriving.  The fair specification has time advance, a due timer run its *)
(* function, and a thread that was woken or that holds mu run.             *)
(***************************************************************************)
Writers == {2}

NextTimer ==
    \/ \E t \in 0..MaxTime :
          \/ SetDeadline(t)
          \/ SetReadDeadline(t)
          \/ SetWriteDeadline(t)
    \/ ReadTimerExpire
    \/ WriteTimerExpire
    \/ ReadTimerFire
    \/ WriteTimerFire
    \/ Tick
    \/ \E t \in Readers :
          \/ ReadBegin(t, MaxBufLen)
          \/ ReadResume(t)
    \/ \E t \in Writers :
          \/ WriteBegin(t, MaxWriteLen)
          \/ WriteRun(t)
          \/ WriteResume(t)

SpecTimer == Init /\ [][NextTimer]_vars

SpecTimerFair ==
    /\ SpecTimer
    /\ WF_vars(Tick)
    /\ WF_vars(ReadTimerExpire)
    /\ WF_vars(WriteTimerExpire)
    /\ WF_vars(ReadTimerFire)
    /\ WF_vars(WriteTimerFire)
    /\ \A t \in Readers : WF_vars(ReadResume(t))
    /\ \A t \in Writers : WF_vars(WriteRun(t)) /\ WF_vars(WriteResume(t))

\* C16: with no data and no terminal event, a thread inside Read with a
\* read deadline set eventually returns, and returns (0, deadline exceeded),
\* unless the deadline is cancelled; a thread inside Write with a write
\* deadline set eventually returns, with deadline exceeded if with an error,
\* unless the deadline is cancelled; a step in which a timer's function runs
\* changes no flag, no buffer and no deadline.
C16_DeadlineEventuallyReturns ==
    /\ [][/\ ReadReturn =>
                (last'.n = 0 /\ last'.err = "deadline"
                   /\ deadlineExceeded(readDeadline))
          /\ (WriteReturns /\ last'.err # "nil") =>
                (last'.err = "deadline" /\ deadlineExceeded(writeDeadline))
          /\ ((readTimer.pending /\ ~readTimer'.pending)
                \/ (writeTimer.pending /\ ~writeTimer'.pending))
             => UNCHANGED <<flagVars, readBuf, readDeadline, writeDeadline,
                            numBytesRead, numBytesWritten>>]_vars
    /\ \A t \in Readers :
          (pc[t] # "idle" /\ readDeadline # 0)
             ~> (pc[t] = "idle" \/ readDeadline = 0)
    /\ \A t \in Writers :
          (pc[t] # "idle" /\ writeDeadline # 0)
             ~> (pc[t] = "idle" \/ writeDeadline = 0)

\* C16: a Read that waited with a deadline in the future returned
\* (0, deadline exceeded) after the read timer's function ran, while the
\* writer still waits with no write deadline.
C16_Witness ==
    /\ last = Result("Read", MaxBufLen, 0, "deadline")
    /\ readDeadline = 2 /\ now = 2
    /\ readTimer = [at |-> 0, pending |-> FALSE]
    /\ pc[2] = "write_wait" /\ writeDeadline = 0

\* C17: a Read returns deadline exceeded only with a non-zero read deadline
\* that has passed, a Write only with such a write deadline, whatever timer
\* function is still to run; a woken thread that runs with its deadline
\* cancelled, nothing to read and no terminal flag waits again in Read, and
\* in Write does not return an error.
C17_CancelledDeadlineNeverReported ==
    [][/\ (ReadReturn /\ last'.err = "deadline") =>
             (readDeadline # 0 /\ now >= readDeadline)
       /\ (WriteReturns /\ last'.err = "deadline") =>
             (writeDeadline # 0 /\ now >= writeDeadline)
       /\ \A t \in Procs :
             /\ (/\ pc[t] = "read_woken" /\ pc'[t] # pc[t]
                 /\ readDeadline = 0 /\ readBuf = <<>> /\ NoTerminal)
                => (pc'[t] = "read_wait" /\ flip' = flip)
             /\ (/\ pc[t] = "write_woken" /\ pc'[t] # pc[t]
                 /\ writeDeadline = 0 /\ ~Terminated)
                => \/ pc'[t] \in {"write_wait", "write_run"} /\ flip' = flip
                   \/ pc'[t] = "idle" /\ last'.err = "nil"]_vars

\* C17: both deadlines were cancelled after their timers came due: the
\* timers' functions are still to run while a thread waits in Read and one in
\* Write.
C17_Witness ==
    /\ readDeadline = 0 /\ readTimer.pending
    /\ writeDeadline = 0 /\ writeTimer.pending
    /\ pc[1] = "read_wait" /\ pc[2] = "write_wait"

(***************************************************************************)
(* Two readers against data arrival, end of stream and the engine's error. *)
(***************************************************************************)
NextFifo ==
    \/ \E len \in 1..MaxBufLen : onData(len)
    \/ setGotEOF
    \/ \E codeName \in Codes : engineError(codeName)
    \/ \E t \in Procs :
          \/ \E len \in 0..MaxBufLen : ReadBegin(t, len)
          \/ ReadResume(t)

SpecFifo == Init /\ [][NextFifo]_vars

\* C18: the bytes Reads returned, in the order the Reads completed, followed
\* by the buffer, are the bytes delivered; numBytesRead is the number of
\* bytes returned; the buffer changes only by a delivery appending to it or
\* by a Read that returns its head.
C18_BufferIsFifo ==
    /\ [](/\ consumed \o readBuf = delivered
          /\ numBytesRead = Len(consumed))
    /\ [][readBuf' # readBuf =>
             \/ /\ Len(delivered') > Len(delivered)
                /\ readBuf' = readBuf
                      \o SubSeq(delivered', Len(delivered) + 1, Len(delivered'))
                /\ consumed' = consumed
             \/ /\ ReadReturn
                /\ last'.n > 0
                /\ readBuf = Take(readBuf, last'.n) \o readBuf'
                /\ consumed' = consumed \o Take(readBuf, last'.n)
                /\ delivered' = delivered]_vars

\* C18: both threads waited in Read, two bytes arrived, one thread returned
\* the first and the other is still to run with the second in the buffer.
C18_Witness ==
    /\ pc[1] = "read_woken" /\ pc[2] = "idle"
    /\ last = Result("Read", 1, 1, "nil")
    /\ Len(delivered) = 2 /\ Len(consumed) = 1 /\ Len(readBuf) = 1

(***************************************************************************)
(* Threads in waitForConnect against the connect upcall, the engine's      *)
(* error, Close and onDestroyed.  The fair specification has a woken       *)
(* thread run.                                                             *)
(***************************************************************************)
NextWaitConnect ==
    \/ \E codeName \in Codes : engineError(codeName)
    \/ setConnected
    \/ onDestroyed
    \/ Close
    \/ \E t \in Procs : waitForConnect(t)
    \/ \E t \in Procs : ConnResume(t)

SpecWaitConnect == Init /\ [][NextWaitConnect]_vars

SpecWaitConnectFair ==
    SpecWaitConnect /\ \A t \in Procs : WF_vars(ConnResume(t))

\* A step in which a call to waitForConnect returns.
ConnReturn == flip' # flip /\ last'.op = "waitForConnect"

\* C19: waitForConnect returns only with the connect upcall delivered or an
\* error recorded, and then returns the recorded error, nil if there is none;
\* a woken thread that runs with neither waits again, closed or destroyed or
\* not; a thread inside waitForConnect once either holds eventually returns.
C19_ConnectWait ==
    /\ [][/\ ConnReturn =>
                /\ gotConnect \/ libError # "nil"
                /\ last'.err = libError
          /\ \A t \in Procs :
                (/\ pc[t] = "conn_woken" /\ pc'[t] # pc[t]
                 /\ ~gotConnect /\ libError = "nil")
                => (pc'[t] = "conn_wait" /\ flip' = flip)]_vars
    /\ \A t \in Procs :
          (pc[t] # "idle" /\ (gotConnect \/ libError # "nil"))
             ~> (pc[t] = "idle")

\* C19: a thread that waited in waitForConnect through Close and
\* onDestroyed returned the recorded error on a connection that is connected
\* as well.
C19_Witness ==
    /\ last = Result("waitForConnect", 0, 0, "ETIMEDOUT")
    /\ gotConnect /\ closed /\ destroyed
    /\ pc[1] = "idle" /\ pc[2] = "conn_woken"

(***************************************************************************)
(* One writer, with a buffer of the largest size, against the terminal     *)
(* events, the write deadline and its timer.  The fair specification has   *)
(* time advance, a due timer run its function, and the writer run when it  *)
(* was woken or holds mu.                                                  *)
(***************************************************************************)
NextWriter ==
    \/ \E codeName \in Codes : engineError(codeName)
    \/ onDestroyed
    \/ Close
    \/ \E t \in 0..MaxTime : SetWriteDeadline(t)
    \/ WriteTimerExpire
    \/ WriteTimerFire
    \/ Tick
    \/ \E t \in Writers :
          \/ WriteBegin(t, MaxWriteLen)
          \/ WriteRun(t)
          \/ WriteResume(t)

SpecWriter == Init /\ [][NextWriter]_vars

SpecWriterFair ==
    /\ SpecWriter
    /\ WF_vars(Tick)
    /\ WF_vars(WriteTimerExpire)
    /\ WF_vars(WriteTimerFire)
    /\ \A t \in Writers : WF_vars(WriteRun(t)) /\ WF_vars(WriteResume(t))

\* C20: a Write of a non-empty buffer returns no error exactly when it
\* returns the length of the buffer; a thread starts to wait in Write only
\* in a step that found no error to report and in which the engine accepted
\* nothing; after the engine accepted part of the rest the thread goes on
\* holding the lock; a thread that goes on does not do so forever; and a
\* thread inside Write returns eventually once the connection has a
\* recorded error, is closed or destroyed, or while a write deadline is set.
C20_WriteTerminates ==
    /\ [][/\ (WriteReturns /\ last'.len > 0) =>
                (last'.err = "nil" <=> last'.n = last'.len)
          /\ \A t \in Procs :
                /\ (pc[t] # "write_wait" /\ pc'[t] = "write_wait")
                   => /\ engineAccepted' = engineAccepted
                      /\ writeErr = "nil"
                      /\ mu' = 0
                /\ (/\ pc[t] \in {"write_run", "write_woken"}
                    /\ engineAccepted' > engineAccepted
                    /\ wb'[t] # <<>>)
                   => (pc'[t] = "write_run" /\ mu' = t)]_vars
    /\ \A t \in Writers :
          /\ (pc[t] = "write_run") ~> (pc[t] # "write_run")
          /\ (pc[t] # "idle" /\ (Terminated \/ writeDeadline # 0))
                ~> (pc[t] = "idle" \/ (~Terminated /\ writeDeadline = 0))

\* C20: a Write of two bytes waited with one byte accepted and returned
\* (1, closed) after Close.
C20_Witness ==
    /\ last = Result("Write", MaxWriteLen, 1, "closed")
    /\ engineAccepted = 1 /\ numBytesWritten = 1
    /\ pc[2] = "idle"

====
